---- MODULE Spec2Model ----
(***************************************************************************)
(* Cart reservation / visit confirmation / booking window state machine of *)
(* the propbandhu marketplace.                                             *)
(*                                                                         *)
(* The persisted state is the Property collection (with its cart_status    *)
(* sub-document), the Cart collection (one cart per buyer, items embedded) *)
(* and the Commission collection.  Every request handler is an async       *)
(* function: each `await` of a database call is one atomic step, so a      *)
(* handler is a small process whose position is kept in req[r].pc and      *)
(* whose local variables (what it loaded, what it decided) are kept in     *)
(* req[r].  Mongoose's save() sends only the modified paths; the versionKey*)
(* rules it applies to array updates are modelled in SaveVersionOk.        *)
(*                                                                         *)
(* Time is counted in days.  A request lasts milliseconds, so the clock    *)
(* only advances while no request is in flight.                            *)
(***************************************************************************)
EXTENDS Integers, Sequences, FiniteSets, TLC

VARIABLES
    now,          \* the clock (Date.now()), in days
    ticks,        \* how many times the clock advanced
    props,        \* Property collection: property id -> document
    carts,        \* Cart collection: buyer id -> cart document or NoCart
    commissions,  \* Commission collection: sequence of records, in creation order
    nextId,       \* next ObjectId of a cart item
    req           \* in-flight requests: slot -> handler state

vars == <<now, ticks, props, carts, commissions, nextId, req>>

----------------------------------------------------------------------------
(* Bounds of the model *)

MaxTicks == 2          \* clock advances explored
MaxItems == 2          \* cart items ever created
MaxCommissions == 2    \* commission records ever created
NumSlots == 2          \* requests in flight at once in the concurrent specifications

(* Program constants *)

DefaultMaxProperties == 5
DefaultVisitWindowDays == 7
DefaultBookingWindowDays == 60
SweepVisitDays == 7
RouteVisitDays == 7
RouteBookingDays == 60
CtrlDefaultSellerRate == 200     \* 2 %
RouteDefaultSellerRate == 250    \* 2.5 %

----------------------------------------------------------------------------
(* The world the model is run in *)

Buyers == {"b1", "b2"}
Props == {"p1", "p2"}
\* the property ids stored in the Property collection
PropIds == DOMAIN props
Brokers == {"k1"}
Slots == 1..NumSlots
TickSteps == {1, 7, 60}

NoUser == "none"
NoDate == -1
NoCart == [items |-> << >>, v |-> -1,
           settings |-> [max_properties |-> 0, visit_window_days |-> 0,
                         booking_window_days |-> 0]]

\* Property.broker and Property.added_by of the listed properties: p1 was added
\* by its seller and is handled by broker k1; p2 was added by broker k1 itself.
PropBroker(p) == "k1"
PropAddedBy(p) == IF p = "p1" THEN [user |-> "s1", role |-> "seller"]
                  ELSE [user |-> "k1", role |-> "broker"]

\* Property.price and Property.commission.seller_rate (schema default 0) of the
\* listed properties
PropPrice(p) == 1000000
PropSellerRate(p) == 0

\* Rule.getRule(ruleType): the value of the active rule, or 0 when the lookup
\* returns null.  The administrator has set cart_max_properties to 1 and left
\* the other rule types without an active rule.
RuleValue(ruleType) == IF ruleType = "cart_max_properties" THEN 1 ELSE 0

\* `rule?.value || dflt`
OrDefault(value, dflt) == IF value = 0 THEN dflt ELSE value

----------------------------------------------------------------------------
(* Documents *)

\* propertySchema.cart_status with every field at its default
ClearedLock ==
    [in_cart |-> FALSE, buyer_id |-> NoUser, added_at |-> NoDate,
     visit_confirmed |-> FALSE, visit_confirmed_at |-> NoDate,
     booking_window_start |-> NoDate, booking_window_end |-> NoDate]

NewProperty == [status |-> "live", cart_status |-> ClearedLock]

\* what Property.findById gives for an id no document has (null)
AbsentProperty == [status |-> "absent", cart_status |-> ClearedLock]

\* a cart item as pushed by POST /api/cart/add
\* the item with booking_window_end already set when it is pushed
NewItem_WithBookingEnd(id, p, t) ==
    [id |-> id, property |-> p, added_at |-> t, status |-> "active",
     visit_status |-> "pending", visit_confirmed_at |-> NoDate,
     confirmed_by |-> NoUser, booking_window_start |-> NoDate,
     booking_window_end |-> t + DefaultBookingWindowDays]

NewItem(id, p, t) ==
    [id |-> id, property |-> p, added_at |-> t, status |-> "active",
     visit_status |-> "pending", visit_confirmed_at |-> NoDate,
     confirmed_by |-> NoUser, booking_window_start |-> NoDate,
     booking_window_end |-> NoDate]

\* What a reserve or confirm call found when it arrived: every cart's items and
\* the lock of the property it is about.  Kept with the request for comparing
\* the state a failed call leaves with the state it found.
NoSnapshot == [items |-> [b \in Buyers |-> << >>], lock |-> ClearedLock]
Snapshot(p) == [items |-> [b \in Buyers |-> carts[b].items], lock |-> props[p].cart_status]

IdleReq ==
    [op |-> "idle", pc |-> "idle", user |-> NoUser, buyer |-> NoUser,
     prop |-> "p1", idx |-> 0, v |-> -1, isNew |-> FALSE, bwe |-> NoDate,
     item |-> 0, litems |-> << >>, todo |-> {}, ptodo |-> {}, res |-> "none",
     pre |-> NoSnapshot, comm |-> 0, arg |-> 0, cpre |-> "none"]

Done(r, result) ==
    [IdleReq EXCEPT !.op = req[r].op, !.pc = "done", !.user = req[r].user,
                    !.buyer = req[r].buyer, !.prop = req[r].prop, !.res = result,
                    !.pre = req[r].pre, !.comm = req[r].comm, !.cpre = req[r].cpre]

----------------------------------------------------------------------------
(* Cart helpers *)

ActiveIdx(items) == {i \in 1..Len(items) : items[i].status = "active"}

\* items.findIndex(item => item.property === p && item.status === 'active'),
\* 0 when there is none
FindActive(items, p) ==
    LET S == {i \in ActiveIdx(items) : items[i].property = p}
    IN IF S = {} THEN 0 ELSE CHOOSE i \in S : \A j \in S : i <= j

\* Mongoose versioning: a save that sets a path inside an array element
\* (items.N.field) or replaces the array carries `__v: <loaded version>` in its
\* filter and fails with VersionError when the stored version has moved on.
SaveVersionOk(b, loaded) == carts[b].v = loaded

Idle(r) == req[r].pc = "idle"
AllIdle == \A r \in Slots : Idle(r)
OthersIdle(r) == \A s \in Slots \ {r} : Idle(s)

----------------------------------------------------------------------------
Init ==
    /\ now = 0
    /\ ticks = 0
    /\ props = [p \in Props |-> NewProperty]
    /\ carts = [b \in Buyers |-> NoCart]
    /\ commissions = << >>
    /\ nextId = 1
    /\ req = [r \in Slots |-> IdleReq]

\* the clock advances between requests
Tick(d) ==
    /\ AllIdle
    /\ ticks < MaxTicks
    /\ now' = now + d
    /\ ticks' = ticks + 1
    /\ UNCHANGED <<props, carts, commissions, nextId, req>>

\* the response has been sent; the slot is free again
Retire(r) ==
    /\ req[r].pc = "done"
    /\ req' = [req EXCEPT ![r] = IdleReq]
    /\ UNCHANGED <<now, ticks, props, carts, commissions, nextId>>

----------------------------------------------------------------------------
(* POST /api/cart/add  (routes/buyer.js) *)

AddsInFlight == Cardinality({s \in Slots : req[s].op = "routeAdd" /\ req[s].pc # "done"})

StartRouteAdd(r, b, p) ==
    /\ Idle(r)
    /\ nextId + AddsInFlight <= MaxItems
    /\ req' = [req EXCEPT ![r] = [IdleReq EXCEPT !.op = "routeAdd", !.pc = "readProp",
                                               !.user = b, !.buyer = b, !.prop = p, !.pre = Snapshot(p)]]
    /\ UNCHANGED <<now, ticks, props, carts, commissions, nextId>>

\* the lock check left out: a property held by another buyer passes
RouteAddCheckProperty_NoLockCheck(doc) ==
    IF doc = AbsentProperty THEN "PropertyNotFound"
    ELSE IF doc.status # "live" THEN "NotLive"
    ELSE "pass"

\* Property.findById, then the in_cart and status checks on what was read
RouteAddCheckProperty(doc) ==
    IF doc = AbsentProperty THEN "PropertyNotFound"
    ELSE IF doc.cart_status.in_cart THEN "AlreadyHeld"
    ELSE IF doc.status # "live" THEN "NotLive"
    ELSE "pass"

RA_ReadProp(r) ==
    /\ req[r].op = "routeAdd" /\ req[r].pc = "readProp"
    /\ LET chk == RouteAddCheckProperty(props[req[r].prop])
       IN req' = [req EXCEPT ![r] = IF chk = "pass" THEN [@ EXCEPT !.pc = "readCart"]
                                    ELSE Done(r, chk)]
    /\ UNCHANGED <<now, ticks, props, carts, commissions, nextId>>

\* the cart the route works on: the stored one, or `new Cart` with fixed settings
RouteNewCart ==
    [items |-> << >>, v |-> 0,
     settings |-> [max_properties |-> DefaultMaxProperties,
                   visit_window_days |-> DefaultVisitWindowDays,
                   booking_window_days |-> DefaultBookingWindowDays]]

\* the cart-limit and already-in-cart checks on the loaded cart
RouteAddCheckCart(cart, p) ==
    IF Cardinality(ActiveIdx(cart.items)) >= cart.settings.max_properties
    THEN "CapacityExceeded"
    ELSE IF FindActive(cart.items, p) # 0 THEN "DuplicateReservation"
    ELSE "pass"

RA_ReadCart(r) ==
    /\ req[r].op = "routeAdd" /\ req[r].pc = "readCart"
    /\ LET b == req[r].buyer
           fresh == carts[b] = NoCart
           cart == IF fresh THEN RouteNewCart ELSE carts[b]
           chk == RouteAddCheckCart(cart, req[r].prop)
       IN req' = [req EXCEPT ![r] = IF chk = "pass"
                                    THEN [@ EXCEPT !.pc = "saveProp", !.isNew = fresh]
                                    ELSE Done(r, chk)]
    /\ UNCHANGED <<now, ticks, props, carts, commissions, nextId>>

\* property.cart_status = {in_cart: true, buyer_id, added_at, visit_confirmed: false}
LockedBy(b, t) ==
    [ClearedLock EXCEPT !.in_cart = TRUE, !.buyer_id = b, !.added_at = t]

\* property.save(): the whole cart_status is replaced, whatever it holds by now
RA_SaveProp(r) ==
    /\ req[r].op = "routeAdd" /\ req[r].pc = "saveProp"
    /\ props' = [props EXCEPT ![req[r].prop].cart_status = LockedBy(req[r].buyer, now)]
    /\ req' = [req EXCEPT ![r].pc = "saveCart"]
    /\ UNCHANGED <<now, ticks, carts, commissions, nextId>>

\* cart.save(): an insert for a cart made with `new Cart` (the unique index on
\* buyer rejects a second cart), a $push that increments __v for a stored one
RA_SaveCart(r) ==
    /\ req[r].op = "routeAdd" /\ req[r].pc = "saveCart"
    /\ LET b == req[r].buyer
           item == NewItem(nextId, req[r].prop, now)
       IN IF req[r].isNew /\ carts[b] # NoCart
          THEN /\ req' = [req EXCEPT ![r] = Done(r, "ServerError")]
               /\ UNCHANGED <<carts, nextId>>
          ELSE /\ carts' = [carts EXCEPT ![b] =
                               IF req[r].isNew
                               THEN [RouteNewCart EXCEPT !.items = <<item>>]
                               ELSE [@ EXCEPT !.items = Append(@, item), !.v = @ + 1]]
               /\ nextId' = nextId + 1
               /\ req' = [req EXCEPT ![r] = Done(r, "ok")]
    /\ UNCHANGED <<now, ticks, props, commissions>>

----------------------------------------------------------------------------
(* addToCart  (controllers/buyerController.js, POST /buyer/cart/add) *)

StartCtrlAdd(r, b, p) ==
    /\ Idle(r)
    /\ req' = [req EXCEPT ![r] = [IdleReq EXCEPT !.op = "ctrlAdd", !.pc = "readProp",
                                               !.user = b, !.buyer = b, !.prop = p, !.pre = Snapshot(p)]]
    /\ UNCHANGED <<now, ticks, props, carts, commissions, nextId>>

\* Property.findOne({_id, status: 'live', 'cart_status.in_cart': false})
CtrlAddFindsProperty(doc) == doc.status = "live" /\ ~doc.cart_status.in_cart

CA_ReadProp(r) ==
    /\ req[r].op = "ctrlAdd" /\ req[r].pc = "readProp"
    /\ req' = [req EXCEPT ![r] = IF CtrlAddFindsProperty(props[req[r].prop])
                                 THEN [@ EXCEPT !.pc = "readCart"]
                                 ELSE Done(r, "NotAvailable")]
    /\ UNCHANGED <<now, ticks, props, carts, commissions, nextId>>

\* Cart.findOne({buyer}).  With a cart in hand the handler calls
\* cart.canAddProperty(), which cartSchema does not define: the call throws a
\* TypeError and the handler answers 500.
CA_ReadCart(r) ==
    /\ req[r].op = "ctrlAdd" /\ req[r].pc = "readCart"
    /\ req' = [req EXCEPT ![r] = IF carts[req[r].buyer] = NoCart
                                 THEN [@ EXCEPT !.pc = "createCart"]
                                 ELSE Done(r, "ServerError")]
    /\ UNCHANGED <<now, ticks, props, carts, commissions, nextId>>

\* the settings Cart.create is given: each rule's value, or the default
CtrlNewCart ==
    [items |-> << >>, v |-> 0,
     settings |-> [max_properties |->
                       OrDefault(RuleValue("cart_max_properties"), DefaultMaxProperties),
                   visit_window_days |->
                       OrDefault(RuleValue("visit_window_days"), DefaultVisitWindowDays),
                   booking_window_days |->
                       OrDefault(RuleValue("booking_window_days"), DefaultBookingWindowDays)]]

\* Rule.getRule x3 and Cart.create, then the same TypeError on canAddProperty
CA_CreateCart(r) ==
    /\ req[r].op = "ctrlAdd" /\ req[r].pc = "createCart"
    /\ carts' = [carts EXCEPT ![req[r].buyer] = IF @ = NoCart THEN CtrlNewCart ELSE @]
    /\ req' = [req EXCEPT ![r] = Done(r, "ServerError")]
    /\ UNCHANGED <<now, ticks, props, commissions, nextId>>

----------------------------------------------------------------------------
(* POST /api/cart/remove  (routes/buyer.js) *)

StartRouteRemove(r, b, p) ==
    /\ Idle(r)
    /\ req' = [req EXCEPT ![r] = [IdleReq EXCEPT !.op = "routeRemove", !.pc = "readCart",
                                               !.user = b, !.buyer = b, !.prop = p]]
    /\ UNCHANGED <<now, ticks, props, carts, commissions, nextId>>

\* Cart.findOne and the findIndex of the active item
RR_ReadCart(r) ==
    /\ req[r].op = "routeRemove" /\ req[r].pc = "readCart"
    /\ LET cart == carts[req[r].buyer]
           i == FindActive(cart.items, req[r].prop)
       IN req' = [req EXCEPT ![r] =
                     IF cart = NoCart THEN Done(r, "CartNotFound")
                     ELSE IF i = 0 THEN Done(r, "ItemNotFound")
                     ELSE [@ EXCEPT !.pc = "saveCart", !.idx = i, !.v = cart.v]]
    /\ UNCHANGED <<now, ticks, props, carts, commissions, nextId>>

\* cart.items[itemIndex].status = 'removed'; cart.save()
RR_SaveCart(r) ==
    /\ req[r].op = "routeRemove" /\ req[r].pc = "saveCart"
    /\ LET b == req[r].buyer
       IN IF SaveVersionOk(b, req[r].v)
          THEN /\ carts' = [carts EXCEPT ![b].items[req[r].idx].status = "removed"]
               /\ req' = [req EXCEPT ![r].pc = "readProp"]
          ELSE /\ req' = [req EXCEPT ![r] = Done(r, "ServerError")]
               /\ UNCHANGED carts
    /\ UNCHANGED <<now, ticks, props, commissions, nextId>>

\* Property.findById
RR_ReadProp(r) ==
    /\ req[r].op = "routeRemove" /\ req[r].pc = "readProp"
    /\ req' = [req EXCEPT ![r] = IF props[req[r].prop] = AbsentProperty
                                 THEN Done(r, "ok")
                                 ELSE [@ EXCEPT !.pc = "saveProp"]]
    /\ UNCHANGED <<now, ticks, props, carts, commissions, nextId>>

\* property.cart_status = {in_cart: false, buyer_id: null, added_at: null,
\* visit_confirmed: false}; property.save()
RR_SaveProp(r) ==
    /\ req[r].op = "routeRemove" /\ req[r].pc = "saveProp"
    /\ props' = [props EXCEPT ![req[r].prop].cart_status = ClearedLock]
    /\ req' = [req EXCEPT ![r] = Done(r, "ok")]
    /\ UNCHANGED <<now, ticks, carts, commissions, nextId>>

----------------------------------------------------------------------------
(* POST /api/visit/schedule  (routes/buyer.js) *)

StartRouteSchedule(r, b, p) ==
    /\ Idle(r)
    /\ req' = [req EXCEPT ![r] = [IdleReq EXCEPT !.op = "routeSchedule", !.pc = "readCart",
                                               !.user = b, !.buyer = b, !.prop = p]]
    /\ UNCHANGED <<now, ticks, props, carts, commissions, nextId>>

\* Cart.findOne and the find of the active item
RS_ReadCart(r) ==
    /\ req[r].op = "routeSchedule" /\ req[r].pc = "readCart"
    /\ LET cart == carts[req[r].buyer]
           i == FindActive(cart.items, req[r].prop)
       IN req' = [req EXCEPT ![r] =
                     IF cart = NoCart THEN Done(r, "CartNotFound")
                     ELSE IF i = 0 THEN Done(r, "ItemNotFound")
                     ELSE [@ EXCEPT !.pc = "saveCart", !.idx = i, !.v = cart.v]]
    /\ UNCHANGED <<now, ticks, props, carts, commissions, nextId>>

\* cartItem.visit_status = 'scheduled'; cart.save().  The other three fields
\* the route assigns are not in cartSchema and are not stored.
RS_SaveCart(r) ==
    /\ req[r].op = "routeSchedule" /\ req[r].pc = "saveCart"
    /\ LET b == req[r].buyer
       IN IF SaveVersionOk(b, req[r].v)
          THEN /\ carts' = [carts EXCEPT ![b].items[req[r].idx].visit_status = "scheduled"]
               /\ req' = [req EXCEPT ![r] = Done(r, "ok")]
          ELSE /\ req' = [req EXCEPT ![r] = Done(r, "ServerError")]
               /\ UNCHANGED carts
    /\ UNCHANGED <<now, ticks, props, commissions, nextId>>

----------------------------------------------------------------------------
(* removeFromCart  (controllers/buyerController.js, POST /buyer/cart/remove) *)

\* notificationSchema's enum of types; Notification.create rejects any other
NotificationTypes ==
    {"property_approved", "property_rejected", "property_added_to_cart",
     "visit_reminder", "booking_window_expiring", "cart_item_expired",
     "commission_earned", "edit_permission_granted", "property_lock",
     "property_unlock", "system_alert", "payment_received"}

\* Notification.createNotification(user, type, ...): the document validates
CreateNotificationOk(type) == type \in NotificationTypes

\* items.splice(i, 1)
Splice(items, i) == [j \in 1..(Len(items) - 1) |-> IF j < i THEN items[j] ELSE items[j + 1]]

StartCtrlRemove(r, b, p) ==
    /\ Idle(r)
    /\ req' = [req EXCEPT ![r] = [IdleReq EXCEPT !.op = "ctrlRemove", !.pc = "readCart",
                                               !.user = b, !.buyer = b, !.prop = p]]
    /\ UNCHANGED <<now, ticks, props, carts, commissions, nextId>>

\* Cart.findOne, findIndex, and the splice on the loaded document
CR_ReadCart(r) ==
    /\ req[r].op = "ctrlRemove" /\ req[r].pc = "readCart"
    /\ LET cart == carts[req[r].buyer]
           i == FindActive(cart.items, req[r].prop)
       IN req' = [req EXCEPT ![r] =
                     IF cart = NoCart THEN Done(r, "CartNotFound")
                     ELSE IF i = 0 THEN Done(r, "ItemNotFound")
                     ELSE [@ EXCEPT !.pc = "saveCart", !.litems = Splice(cart.items, i),
                                    !.v = cart.v]]
    /\ UNCHANGED <<now, ticks, props, carts, commissions, nextId>>

\* cart.save() after a splice: $set of the whole items array as loaded, with the
\* loaded __v in the filter and an increment of __v
CR_SaveCart(r) ==
    /\ req[r].op = "ctrlRemove" /\ req[r].pc = "saveCart"
    /\ LET b == req[r].buyer
       IN IF SaveVersionOk(b, req[r].v)
          THEN /\ carts' = [carts EXCEPT ![b].items = req[r].litems, ![b].v = @ + 1]
               /\ req' = [req EXCEPT ![r].pc = "updateProp", ![r].litems = << >>]
          ELSE /\ req' = [req EXCEPT ![r] = Done(r, "ServerError")]
               /\ UNCHANGED carts
    /\ UNCHANGED <<now, ticks, props, commissions, nextId>>

\* Property.findByIdAndUpdate(p, {'cart_status.in_cart': false, 'cart_status.buyer_id': null})
CR_UpdateProp(r) ==
    /\ req[r].op = "ctrlRemove" /\ req[r].pc = "updateProp"
    /\ props' = [props EXCEPT ![req[r].prop].cart_status.in_cart = FALSE,
                              ![req[r].prop].cart_status.buyer_id = NoUser]
    /\ req' = [req EXCEPT ![r].pc = "notify"]
    /\ UNCHANGED <<now, ticks, carts, commissions, nextId>>

\* Property.findById and the 'property_unlock' notification to the seller
CR_Notify(r) ==
    /\ req[r].op = "ctrlRemove" /\ req[r].pc = "notify"
    /\ req' = [req EXCEPT ![r] = Done(r, IF CreateNotificationOk("property_unlock")
                                         THEN "ok" ELSE "ServerError")]
    /\ UNCHANGED <<now, ticks, props, carts, commissions, nextId>>

----------------------------------------------------------------------------
(* confirmVisit  (controllers/buyerController.js, POST /buyer/visit/confirm) *)

\* new Date() > added_at + days
WindowElapsed(added_at, days) == now > added_at + days

StartBuyerConfirm(r, b, p) ==
    /\ Idle(r)
    /\ req' = [req EXCEPT ![r] = [IdleReq EXCEPT !.op = "buyerConfirm", !.pc = "readCart",
                                               !.user = b, !.buyer = b, !.prop = p, !.pre = Snapshot(p)]]
    /\ UNCHANGED <<now, ticks, props, carts, commissions, nextId>>

\* Cart.findOne, the find of the active item, the visit-window check
BC_ReadCart(r) ==
    /\ req[r].op = "buyerConfirm" /\ req[r].pc = "readCart"
    /\ LET cart == carts[req[r].buyer]
           i == FindActive(cart.items, req[r].prop)
       IN req' = [req EXCEPT ![r] =
                     IF cart = NoCart THEN Done(r, "CartNotFound")
                     ELSE IF i = 0 THEN Done(r, "ItemNotFound")
                     ELSE IF WindowElapsed(cart.items[i].added_at,
                                           cart.settings.visit_window_days)
                          THEN Done(r, "VisitWindowExpired")
                     ELSE [@ EXCEPT !.pc = "saveCart", !.idx = i, !.v = cart.v,
                                    !.bwe = cart.items[i].booking_window_end]]
    /\ UNCHANGED <<now, ticks, props, carts, commissions, nextId>>

\* the four assignments of the controllers to the cart item (no booking_window_end)
ConfirmItem(item, by) ==
    [item EXCEPT !.visit_status = "confirmed", !.visit_confirmed_at = now,
                 !.confirmed_by = by, !.booking_window_start = now]

BC_SaveCart(r) ==
    /\ req[r].op = "buyerConfirm" /\ req[r].pc = "saveCart"
    /\ LET b == req[r].buyer
       IN IF SaveVersionOk(b, req[r].v)
          THEN /\ carts' = [carts EXCEPT ![b].items[req[r].idx] = ConfirmItem(@, req[r].user)]
               /\ req' = [req EXCEPT ![r].pc = "updateProp"]
          ELSE /\ req' = [req EXCEPT ![r] = Done(r, "ServerError")]
               /\ UNCHANGED carts
    /\ UNCHANGED <<now, ticks, props, commissions, nextId>>

\* Property.findByIdAndUpdate: visit_confirmed, visit_confirmed_at,
\* booking_window_start, and booking_window_end as the loaded item had it (an
\* undefined value is dropped from the update)
BC_UpdateProp(r) ==
    /\ req[r].op = "buyerConfirm" /\ req[r].pc = "updateProp"
    /\ props' = [props EXCEPT ![req[r].prop].cart_status =
                    [@ EXCEPT !.visit_confirmed = TRUE, !.visit_confirmed_at = now,
                              !.booking_window_start = now,
                              !.booking_window_end =
                                  IF req[r].bwe = NoDate THEN @ ELSE req[r].bwe]]
    /\ req' = [req EXCEPT ![r].pc = "notify"]
    /\ UNCHANGED <<now, ticks, carts, commissions, nextId>>

\* Property.findById and the 'visit_confirmed' notifications
BC_Notify(r) ==
    /\ req[r].op = "buyerConfirm" /\ req[r].pc = "notify"
    /\ req' = [req EXCEPT ![r] = Done(r, IF CreateNotificationOk("visit_confirmed")
                                         THEN "ok" ELSE "ServerError")]
    /\ UNCHANGED <<now, ticks, props, carts, commissions, nextId>>

----------------------------------------------------------------------------
(* confirmVisit  (controllers/brokerController.js, POST /broker/visit/confirm) *)

\* Rates are counted in hundredths of a percent, so that 2.5 % is a whole number.
RateUnits == 10000

\* `(price * rate) / 100`, with the rate in hundredths of a percent
CommissionAmount(price, rate) == (price * rate) \div RateUnits

\* original_rate of a commission that was never overridden (undefined)
NoRate == -1

\* a Commission document; `item` records which cart item's confirmation made it
NewCommission(k, p, item, rate) ==
    [broker |-> k, property |-> p, property_price |-> PropPrice(p),
     commission_type |-> "seller", rate |-> rate,
     amount |-> CommissionAmount(PropPrice(p), rate),
     status |-> "pending", item |-> item,
     approved_by |-> NoUser, is_override |-> FALSE, original_rate |-> NoRate]

ConfirmsInFlight ==
    Cardinality({s \in Slots : req[s].op \in {"brokerConfirm", "brokerRouteConfirm"}
                               /\ req[s].pc # "done"})

StartBrokerConfirm(r, k, b, p) ==
    /\ Idle(r)
    /\ Len(commissions) + ConfirmsInFlight < MaxCommissions
    /\ req' = [req EXCEPT ![r] = [IdleReq EXCEPT !.op = "brokerConfirm", !.pc = "readCart",
                                               !.user = k, !.buyer = b, !.prop = p, !.pre = Snapshot(p)]]
    /\ UNCHANGED <<now, ticks, props, carts, commissions, nextId>>

\* Cart.findOne({buyer: buyerId}) and the find of the active item
KC_ReadCart(r) ==
    /\ req[r].op = "brokerConfirm" /\ req[r].pc = "readCart"
    /\ LET cart == carts[req[r].buyer]
           i == FindActive(cart.items, req[r].prop)
       IN req' = [req EXCEPT ![r] =
                     IF cart = NoCart THEN Done(r, "CartNotFound")
                     ELSE IF i = 0 THEN Done(r, "ItemNotFound")
                     ELSE [@ EXCEPT !.pc = "readProp", !.idx = i, !.v = cart.v,
                                    !.item = cart.items[i].id]]
    /\ UNCHANGED <<now, ticks, props, carts, commissions, nextId>>

\* Property.findById and the assigned-broker check
KC_ReadProp(r) ==
    /\ req[r].op = "brokerConfirm" /\ req[r].pc = "readProp"
    /\ req' = [req EXCEPT ![r] = IF PropBroker(req[r].prop) # req[r].user
                                 THEN Done(r, "Forbidden")
                                 ELSE [@ EXCEPT !.pc = "saveCart"]]
    /\ UNCHANGED <<now, ticks, props, carts, commissions, nextId>>

KC_SaveCart(r) ==
    /\ req[r].op = "brokerConfirm" /\ req[r].pc = "saveCart"
    /\ LET b == req[r].buyer
       IN IF SaveVersionOk(b, req[r].v)
          THEN /\ carts' = [carts EXCEPT ![b].items[req[r].idx] = ConfirmItem(@, req[r].user)]
               /\ req' = [req EXCEPT ![r].pc = "saveProp"]
          ELSE /\ req' = [req EXCEPT ![r] = Done(r, "ServerError")]
               /\ UNCHANGED carts
    /\ UNCHANGED <<now, ticks, props, commissions, nextId>>

\* property.cart_status.visit_confirmed / visit_confirmed_at / booking_window_start
\* (and confirmed_by); property.save().  Then the added_by test.
BrokerCtrlOwesCommission(p, k) == PropAddedBy(p).user # k

KC_SaveProp(r) ==
    /\ req[r].op = "brokerConfirm" /\ req[r].pc = "saveProp"
    /\ props' = [props EXCEPT ![req[r].prop].cart_status =
                    [@ EXCEPT !.visit_confirmed = TRUE, !.visit_confirmed_at = now,
                              !.booking_window_start = now]]
    /\ req' = [req EXCEPT ![r].pc = IF BrokerCtrlOwesCommission(req[r].prop, req[r].user)
                                    THEN "commission" ELSE "notify"]
    /\ UNCHANGED <<now, ticks, carts, commissions, nextId>>

\* `sellerRule?.value || 2`
CtrlSellerRate == OrDefault(RuleValue("commission_seller"), CtrlDefaultSellerRate)

\* Rule.getRule('commission_seller') and Commission.create
KC_Commission(r) ==
    /\ req[r].op = "brokerConfirm" /\ req[r].pc = "commission"
    /\ commissions' = Append(commissions, NewCommission(req[r].user, req[r].prop, req[r].item,
                                                       CtrlSellerRate))
    /\ req' = [req EXCEPT ![r].pc = "notify"]
    /\ UNCHANGED <<now, ticks, props, carts, nextId>>

\* Commission.create rejects (the store fails the insert): the catch answers 500
KC_CommissionFails(r) ==
    /\ req[r].op = "brokerConfirm" /\ req[r].pc = "commission"
    /\ req' = [req EXCEPT ![r] = Done(r, "ServerError")]
    /\ UNCHANGED <<now, ticks, props, carts, commissions, nextId>>

\* the 'visit_confirmed' notifications to buyer and seller
KC_Notify(r) ==
    /\ req[r].op = "brokerConfirm" /\ req[r].pc = "notify"
    /\ req' = [req EXCEPT ![r] = Done(r, IF CreateNotificationOk("visit_confirmed")
                                         THEN "ok" ELSE "ServerError")]
    /\ UNCHANGED <<now, ticks, props, carts, commissions, nextId>>

----------------------------------------------------------------------------
(* POST /api/visits/:propertyId/confirm  (broker routes) *)

StartBrokerRouteConfirm(r, k, p) ==
    /\ Idle(r)
    /\ Len(commissions) + ConfirmsInFlight < MaxCommissions
    /\ req' = [req EXCEPT ![r] = [IdleReq EXCEPT !.op = "brokerRouteConfirm",
                                               !.pc = "readProp", !.user = k, !.prop = p, !.pre = Snapshot(p)]]
    /\ UNCHANGED <<now, ticks, props, carts, commissions, nextId>>

\* Property.findOne({_id, broker: req.user.id})
KR_ReadProp(r) ==
    /\ req[r].op = "brokerRouteConfirm" /\ req[r].pc = "readProp"
    /\ req' = [req EXCEPT ![r] = IF PropBroker(req[r].prop) # req[r].user
                                 THEN Done(r, "PropertyNotFound")
                                 ELSE [@ EXCEPT !.pc = "readCart"]]
    /\ UNCHANGED <<now, ticks, props, carts, commissions, nextId>>

\* the carts Cart.findOne({'items.property': p, 'items.status': 'active'}) may
\* return: some item is on p and some item (the same or another) is active
CartsMatching(p) ==
    {b \in Buyers : /\ carts[b] # NoCart
                    /\ \E i \in 1..Len(carts[b].items) : carts[b].items[i].property = p
                    /\ ActiveIdx(carts[b].items) # {}}

\* Cart.findOne (any one matching cart), the find of the active item, and the
\* 7-day check
KR_ReadCart(r) ==
    /\ req[r].op = "brokerRouteConfirm" /\ req[r].pc = "readCart"
    /\ IF CartsMatching(req[r].prop) = {}
       THEN req' = [req EXCEPT ![r] = Done(r, "CartNotFound")]
       ELSE \E b \in CartsMatching(req[r].prop) :
              LET cart == carts[b]
                  i == FindActive(cart.items, req[r].prop)
              IN req' = [req EXCEPT ![r] =
                            IF i = 0 THEN Done(r, "ItemNotFound")
                            ELSE IF WindowElapsed(cart.items[i].added_at, RouteVisitDays)
                                 THEN Done(r, "VisitWindowExpired")
                            ELSE [@ EXCEPT !.pc = "saveCart", !.buyer = b, !.idx = i,
                                           !.v = cart.v, !.item = cart.items[i].id]]
    /\ UNCHANGED <<now, ticks, props, carts, commissions, nextId>>

\* the route's assignments to the cart item, booking_window_end included
RouteConfirmItem(item, by, days) ==
    [item EXCEPT !.visit_status = "confirmed", !.visit_confirmed_at = now,
                 !.confirmed_by = by, !.booking_window_start = now,
                 !.booking_window_end = now + days]

KR_SaveCart(r) ==
    /\ req[r].op = "brokerRouteConfirm" /\ req[r].pc = "saveCart"
    /\ LET b == req[r].buyer
       IN IF SaveVersionOk(b, req[r].v)
          THEN /\ carts' = [carts EXCEPT ![b].items[req[r].idx] =
                               RouteConfirmItem(@, req[r].user, RouteBookingDays)]
               /\ req' = [req EXCEPT ![r].pc = "saveProp"]
          ELSE /\ req' = [req EXCEPT ![r] = Done(r, "ServerError")]
               /\ UNCHANGED carts
    /\ UNCHANGED <<now, ticks, props, commissions, nextId>>

\* added_by.user !== req.user.id || added_by.role !== 'broker'
BrokerRouteOwesCommission(p, k) ==
    PropAddedBy(p).user # k \/ PropAddedBy(p).role # "broker"

KR_SaveProp(r) ==
    /\ req[r].op = "brokerRouteConfirm" /\ req[r].pc = "saveProp"
    /\ props' = [props EXCEPT ![req[r].prop].cart_status =
                    [@ EXCEPT !.visit_confirmed = TRUE, !.visit_confirmed_at = now,
                              !.booking_window_start = now,
                              !.booking_window_end = now + RouteBookingDays]]
    /\ req' = [req EXCEPT ![r] = IF BrokerRouteOwesCommission(req[r].prop, req[r].user)
                                 THEN [@ EXCEPT !.pc = "commission"]
                                 ELSE Done(r, "ok")]
    /\ UNCHANGED <<now, ticks, carts, commissions, nextId>>

\* `property.commission?.seller_rate || 2.5`, the sellerRate handed to
\* Commission.calculateCommission(price, 'seller', adderRate, sellerRate)
RouteSellerRate(p) == OrDefault(PropSellerRate(p), RouteDefaultSellerRate)

\* Commission.calculateCommission and Commission.create
KR_Commission(r) ==
    /\ req[r].op = "brokerRouteConfirm" /\ req[r].pc = "commission"
    /\ commissions' = Append(commissions, NewCommission(req[r].user, req[r].prop, req[r].item,
                                                       RouteSellerRate(req[r].prop)))
    /\ req' = [req EXCEPT ![r] = Done(r, "ok")]
    /\ UNCHANGED <<now, ticks, props, carts, nextId>>

\* Commission.create rejects: the catch answers 500
KR_CommissionFails(r) ==
    /\ req[r].op = "brokerRouteConfirm" /\ req[r].pc = "commission"
    /\ req' = [req EXCEPT ![r] = Done(r, "ServerError")]
    /\ UNCHANGED <<now, ticks, props, carts, commissions, nextId>>

----------------------------------------------------------------------------
(* cartSchema.methods.confirmVisit, called on a cart loaded for buyer b *)

StartCartConfirm(r, b, p, by) ==
    /\ Idle(r)
    /\ req' = [req EXCEPT ![r] = [IdleReq EXCEPT !.op = "cartConfirm", !.pc = "readCart",
                                               !.user = by, !.buyer = b, !.prop = p, !.pre = Snapshot(p)]]
    /\ UNCHANGED <<now, ticks, props, carts, commissions, nextId>>

\* the load of the cart and the synchronous part of the method up to its save
MC_ReadCart(r) ==
    /\ req[r].op = "cartConfirm" /\ req[r].pc = "readCart"
    /\ LET cart == carts[req[r].buyer]
           i == FindActive(cart.items, req[r].prop)
       IN req' = [req EXCEPT ![r] =
                     IF cart = NoCart THEN Done(r, "CartNotFound")
                     ELSE IF i = 0 THEN Done(r, "ItemNotFound")
                     ELSE IF cart.items[i].visit_status = "confirmed"
                          THEN Done(r, "AlreadyConfirmed")
                     ELSE [@ EXCEPT !.pc = IF WindowElapsed(cart.items[i].added_at,
                                                            cart.settings.visit_window_days)
                                           THEN "saveExpired" ELSE "saveCart",
                                    !.idx = i, !.v = cart.v]]
    /\ UNCHANGED <<now, ticks, props, carts, commissions, nextId>>

\* item.visit_status = 'expired'; item.status = 'expired'
ExpireItem(item) == [item EXCEPT !.visit_status = "expired", !.status = "expired"]

\* the save of the expired item, then `throw new Error('Visit window has expired')`
MC_SaveExpired(r) ==
    /\ req[r].op = "cartConfirm" /\ req[r].pc = "saveExpired"
    /\ LET b == req[r].buyer
       IN IF SaveVersionOk(b, req[r].v)
          THEN /\ carts' = [carts EXCEPT ![b].items[req[r].idx] = ExpireItem(@)]
               /\ req' = [req EXCEPT ![r] = Done(r, "VisitWindowExpired")]
          ELSE /\ req' = [req EXCEPT ![r] = Done(r, "ServerError")]
               /\ UNCHANGED carts
    /\ UNCHANGED <<now, ticks, props, commissions, nextId>>

MC_SaveCart(r) ==
    /\ req[r].op = "cartConfirm" /\ req[r].pc = "saveCart"
    /\ LET b == req[r].buyer
       IN IF SaveVersionOk(b, req[r].v)
          THEN /\ carts' = [carts EXCEPT ![b].items[req[r].idx] =
                               RouteConfirmItem(@, req[r].user,
                                                carts[b].settings.booking_window_days)]
               /\ req' = [req EXCEPT ![r] = Done(r, "ok")]
          ELSE /\ req' = [req EXCEPT ![r] = Done(r, "ServerError")]
               /\ UNCHANGED carts
    /\ UNCHANGED <<now, ticks, props, commissions, nextId>>

----------------------------------------------------------------------------
(* POST /api/properties/:id/unlock  (routes/seller.js) *)

StartSellerUnlock(r, p) ==
    /\ Idle(r)
    /\ req' = [req EXCEPT ![r] = [IdleReq EXCEPT !.op = "sellerUnlock", !.pc = "readProp",
                                               !.prop = p]]
    /\ UNCHANGED <<now, ticks, props, carts, commissions, nextId>>

\* Property.findOne and the in_cart check; for a locked property the handler
\* calls isVisitPending(), which propertySchema does not define: TypeError, 500
SU_ReadProp(r) ==
    /\ req[r].op = "sellerUnlock" /\ req[r].pc = "readProp"
    /\ req' = [req EXCEPT ![r] = Done(r, IF ~props[req[r].prop].cart_status.in_cart
                                         THEN "NotLocked" ELSE "ServerError")]
    /\ UNCHANGED <<now, ticks, props, carts, commissions, nextId>>

----------------------------------------------------------------------------
(* SimpleCleanupService.cleanupExpiredItems *)

\* {'cart_status.added_at': {$lt: t}}: a missing date matches no comparison
DateBefore(d, t) == d # NoDate /\ d < t

\* 'cart_status.in_cart': false, 'cart_status.buyer_id': null
Unlocked(cs) == [cs EXCEPT !.in_cart = FALSE, !.buyer_id = NoUser]

VisitLockExpired(cs, days) ==
    cs.in_cart /\ ~cs.visit_confirmed /\ DateBefore(cs.added_at, now - days)

BookingLockExpired(cs) ==
    cs.in_cart /\ cs.visit_confirmed /\ DateBefore(cs.booking_window_end, now)

StartSimpleSweep(r) ==
    /\ Idle(r)
    /\ req' = [req EXCEPT ![r] = [IdleReq EXCEPT !.op = "simpleSweep", !.pc = "visit"]]
    /\ UNCHANGED <<now, ticks, props, carts, commissions, nextId>>

\* the first Property.updateMany
SS_Visit(r) ==
    /\ req[r].op = "simpleSweep" /\ req[r].pc = "visit"
    /\ props' = [p \in PropIds |->
                    IF VisitLockExpired(props[p].cart_status, SweepVisitDays)
                    THEN [props[p] EXCEPT !.cart_status = Unlocked(@)]
                    ELSE props[p]]
    /\ req' = [req EXCEPT ![r].pc = "booking"]
    /\ UNCHANGED <<now, ticks, carts, commissions, nextId>>

\* the second Property.updateMany
SS_Booking(r) ==
    /\ req[r].op = "simpleSweep" /\ req[r].pc = "booking"
    /\ props' = [p \in PropIds |->
                    IF BookingLockExpired(props[p].cart_status)
                    THEN [props[p] EXCEPT !.cart_status = Unlocked(@)]
                    ELSE props[p]]
    /\ req' = [req EXCEPT ![r] = Done(r, "ok")]
    /\ UNCHANGED <<now, ticks, carts, commissions, nextId>>

----------------------------------------------------------------------------
(* CartCleanupService.cleanupExpiredItems, Cart.cleanExpiredItems and
   cartSchema.methods.checkExpiredItems *)

\* the items checkExpiredItems expires for a passed visit window
VisitExpiredIdx(cart) ==
    {i \in 1..Len(cart.items) :
        /\ cart.items[i].status = "active" /\ cart.items[i].visit_status = "pending"
        /\ now - cart.items[i].added_at > cart.settings.visit_window_days}

\* the items checkExpiredItems expires for a passed booking window
BookingExpiredIdx(cart) ==
    {i \in 1..Len(cart.items) :
        /\ cart.items[i].status = "active" /\ cart.items[i].visit_status = "confirmed"
        /\ cart.items[i].booking_window_end # NoDate
        /\ now > cart.items[i].booking_window_end}

\* what checkExpiredItems will save for one loaded cart
CheckExpiredItems(b) ==
    [buyer |-> b, v |-> carts[b].v,
     expV |-> VisitExpiredIdx(carts[b]), expB |-> BookingExpiredIdx(carts[b])]

StartCronSweep(r) ==
    /\ Idle(r)
    /\ req' = [req EXCEPT ![r] = [IdleReq EXCEPT !.op = "cronSweep", !.pc = "findCarts"]]
    /\ UNCHANGED <<now, ticks, props, carts, commissions, nextId>>

\* Cart.find({}): every cart is loaded; those with something to expire get saved
CS_FindCarts(r) ==
    /\ req[r].op = "cronSweep" /\ req[r].pc = "findCarts"
    /\ LET plans == {pl \in {CheckExpiredItems(b) : b \in {c \in Buyers : carts[c] # NoCart}} :
                        pl.expV # {} \/ pl.expB # {}}
       IN req' = [req EXCEPT ![r].pc = IF plans = {} THEN "findProps" ELSE "saveCarts",
                             ![r].todo = plans]
    /\ UNCHANGED <<now, ticks, props, carts, commissions, nextId>>

\* one cart.save() of checkExpiredItems; a VersionError ends the whole cleanup
\* in the service's catch
CS_SaveCart(r) ==
    /\ req[r].op = "cronSweep" /\ req[r].pc = "saveCarts"
    /\ \E pl \in req[r].todo :
         IF SaveVersionOk(pl.buyer, pl.v)
         THEN /\ carts' = [carts EXCEPT ![pl.buyer].items =
                              [i \in 1..Len(@) |->
                                  IF i \in pl.expV THEN ExpireItem(@[i])
                                  ELSE IF i \in pl.expB THEN [@[i] EXCEPT !.status = "expired"]
                                  ELSE @[i]]]
              /\ req' = [req EXCEPT ![r].todo = @ \ {pl},
                                    ![r].pc = IF req[r].todo = {pl} THEN "findProps"
                                              ELSE "saveCarts"]
         ELSE /\ req' = [req EXCEPT ![r] = Done(r, "ServerError")]
              /\ UNCHANGED carts
    /\ UNCHANGED <<now, ticks, props, commissions, nextId>>

\* Property.find of the locks whose 7 days have passed without a confirmation
CS_FindProps(r) ==
    /\ req[r].op = "cronSweep" /\ req[r].pc = "findProps"
    /\ LET found == {p \in PropIds : VisitLockExpired(props[p].cart_status, SweepVisitDays)}
       IN req' = [req EXCEPT ![r] = IF found = {} THEN Done(r, "ok")
                                    ELSE [@ EXCEPT !.pc = "saveProps", !.ptodo = found]]
    /\ UNCHANGED <<now, ticks, props, carts, commissions, nextId>>

\* property.cart_status.in_cart = false; buyer_id = null; property.save()
CS_SaveProp(r) ==
    /\ req[r].op = "cronSweep" /\ req[r].pc = "saveProps"
    /\ \E p \in req[r].ptodo :
         /\ props' = [props EXCEPT ![p].cart_status = Unlocked(@)]
         /\ req' = [req EXCEPT ![r] = IF req[r].ptodo = {p} THEN Done(r, "ok")
                                      ELSE [@ EXCEPT !.ptodo = @ \ {p}]]
    /\ UNCHANGED <<now, ticks, carts, commissions, nextId>>

----------------------------------------------------------------------------
(* POST /admin/api/properties/:id/reject  (routes/adminViewRoutes.js) *)

StartAdminReject(r, p) ==
    /\ Idle(r)
    /\ req' = [req EXCEPT ![r] = [IdleReq EXCEPT !.op = "adminReject", !.pc = "readProp",
                                               !.user = "admin", !.prop = p]]
    /\ UNCHANGED <<now, ticks, props, carts, commissions, nextId>>

\* Property.findById(id)
AJ_ReadProp(r) ==
    /\ req[r].op = "adminReject" /\ req[r].pc = "readProp"
    /\ req' = [req EXCEPT ![r] = IF props[req[r].prop] = AbsentProperty
                                 THEN Done(r, "PropertyNotFound")
                                 ELSE [@ EXCEPT !.pc = "saveProp"]]
    /\ UNCHANGED <<now, ticks, props, carts, commissions, nextId>>

\* property.status = 'rejected'; property.save(): whatever the status and the
\* lock were.  save() of a document deleted meanwhile throws.
AJ_SaveProp(r) ==
    /\ req[r].op = "adminReject" /\ req[r].pc = "saveProp"
    /\ IF props[req[r].prop] = AbsentProperty
       THEN /\ req' = [req EXCEPT ![r] = Done(r, "ServerError")]
            /\ UNCHANGED props
       ELSE /\ props' = [props EXCEPT ![req[r].prop].status = "rejected"]
            /\ req' = [req EXCEPT ![r] = Done(r, "ok")]
    /\ UNCHANGED <<now, ticks, carts, commissions, nextId>>

----------------------------------------------------------------------------
(* suspendProperty  (controllers/adminController.js,
   POST /admin/api/api/properties/:id/suspend) *)

StartAdminSuspend(r, p) ==
    /\ Idle(r)
    /\ req' = [req EXCEPT ![r] = [IdleReq EXCEPT !.op = "adminSuspend", !.pc = "readProp",
                                               !.user = "admin", !.prop = p]]
    /\ UNCHANGED <<now, ticks, props, carts, commissions, nextId>>

\* the handler reads req.params.propertyId while the route declares :id, so
\* Property.findById(undefined) finds nothing and property.suspend is not called
AS_ReadProp(r) ==
    /\ req[r].op = "adminSuspend" /\ req[r].pc = "readProp"
    /\ req' = [req EXCEPT ![r] = Done(r, "PropertyNotFound")]
    /\ UNCHANGED <<now, ticks, props, carts, commissions, nextId>>

----------------------------------------------------------------------------
(* POST /seller/properties/:id/delete  (routes/seller.js) *)

StartSellerDelete(r, p) ==
    /\ Idle(r)
    /\ req' = [req EXCEPT ![r] = [IdleReq EXCEPT !.op = "sellerDelete", !.pc = "readProp",
                                               !.user = "s1", !.prop = p]]
    /\ UNCHANGED <<now, ticks, props, carts, commissions, nextId>>

\* Property.findOne({_id, seller}), then the in_cart check
SD_ReadProp(r) ==
    /\ req[r].op = "sellerDelete" /\ req[r].pc = "readProp"
    /\ LET doc == props[req[r].prop]
       IN req' = [req EXCEPT ![r] =
                     IF doc = AbsentProperty THEN Done(r, "PropertyNotFound")
                     ELSE IF doc.cart_status.in_cart THEN Done(r, "InCart")
                     ELSE [@ EXCEPT !.pc = "delete"]]
    /\ UNCHANGED <<now, ticks, props, carts, commissions, nextId>>

\* Property.findByIdAndDelete(id)
SD_Delete(r) ==
    /\ req[r].op = "sellerDelete" /\ req[r].pc = "delete"
    /\ props' = [props EXCEPT ![req[r].prop] = AbsentProperty]
    /\ req' = [req EXCEPT ![r] = Done(r, "ok")]
    /\ UNCHANGED <<now, ticks, carts, commissions, nextId>>

----------------------------------------------------------------------------
(* approveCommission and overrideCommission  (controllers/adminController.js,
   POST /admin/api/api/commissions/:id/approve and .../commissions/override) *)

\* the commission ids a request can name: the stored ones and one unknown id
CommissionIds == 1..(MaxCommissions + 1)

\* the status of commission i as a request finds it on arrival
StatusOf(i) == IF i <= Len(commissions) THEN commissions[i].status ELSE "none"

StartApproveCommission(r, i) ==
    /\ Idle(r)
    /\ req' = [req EXCEPT ![r] = [IdleReq EXCEPT !.op = "approveCommission",
                                               !.pc = "readComm", !.user = "admin",
                                               !.comm = i, !.cpre = StatusOf(i)]]
    /\ UNCHANGED <<now, ticks, props, carts, commissions, nextId>>

\* `if (commission.status !== 'pending')`
ApproveCheck(doc) == IF doc.status # "pending" THEN "NotPending" ELSE "pass"

\* Commission.findById(id) and the status check
AC_ReadComm(r) ==
    /\ req[r].op = "approveCommission" /\ req[r].pc = "readComm"
    /\ req' = [req EXCEPT ![r] =
                  IF req[r].comm > Len(commissions) THEN Done(r, "CommissionNotFound")
                  ELSE IF ApproveCheck(commissions[req[r].comm]) # "pass"
                       THEN Done(r, ApproveCheck(commissions[req[r].comm]))
                       ELSE [@ EXCEPT !.pc = "saveComm"]]
    /\ UNCHANGED <<now, ticks, props, carts, commissions, nextId>>

\* commission.status = 'approved'; approved_by; commission.save().  The
\* notification that follows is wrapped in its own try/catch.
AC_SaveComm(r) ==
    /\ req[r].op = "approveCommission" /\ req[r].pc = "saveComm"
    /\ commissions' = [commissions EXCEPT ![req[r].comm] =
                           [@ EXCEPT !.status = "approved", !.approved_by = req[r].user]]
    /\ req' = [req EXCEPT ![r] = Done(r, "ok")]
    /\ UNCHANGED <<now, ticks, props, carts, nextId>>

\* the newAmount values of the request body
OverrideAmounts == {0, 30000}

StartOverrideCommission(r, i, amt) ==
    /\ Idle(r)
    /\ req' = [req EXCEPT ![r] = [IdleReq EXCEPT !.op = "overrideCommission",
                                               !.pc = "readComm", !.user = "admin",
                                               !.comm = i, !.arg = amt,
                                               !.cpre = StatusOf(i)]]
    /\ UNCHANGED <<now, ticks, props, carts, commissions, nextId>>

\* `!newAmount || newAmount <= 0`, then Commission.findById(commissionId)
OC_ReadComm(r) ==
    /\ req[r].op = "overrideCommission" /\ req[r].pc = "readComm"
    /\ req' = [req EXCEPT ![r] =
                  IF req[r].arg <= 0 THEN Done(r, "InvalidAmount")
                  ELSE IF req[r].comm > Len(commissions) THEN Done(r, "CommissionNotFound")
                  ELSE [@ EXCEPT !.pc = "saveComm"]]
    /\ UNCHANGED <<now, ticks, props, carts, commissions, nextId>>

\* commission.amount = parseFloat(newAmount); commission.save(): the rate is
\* left as it was
OC_SaveComm(r) ==
    /\ req[r].op = "overrideCommission" /\ req[r].pc = "saveComm"
    /\ commissions' = [commissions EXCEPT ![req[r].comm].amount = req[r].arg]
    /\ req' = [req EXCEPT ![r] = Done(r, "ok")]
    /\ UNCHANGED <<now, ticks, props, carts, nextId>>

----------------------------------------------------------------------------
(* commissionSchema.methods.approve, markAsPaid and override
   (models/Commission.js), each called on a document just loaded *)

StartMethodApprove(r, i) ==
    /\ Idle(r)
    /\ i <= Len(commissions)
    /\ req' = [req EXCEPT ![r] = [IdleReq EXCEPT !.op = "methodApprove", !.pc = "call",
                                               !.user = "admin", !.comm = i,
                                               !.cpre = StatusOf(i)]]
    /\ UNCHANGED <<now, ticks, props, carts, commissions, nextId>>

\* approve(approvedBy, notes): throws unless the status is pending
MA_Call(r) ==
    /\ req[r].op = "methodApprove" /\ req[r].pc = "call"
    /\ IF commissions[req[r].comm].status # "pending"
       THEN /\ req' = [req EXCEPT ![r] = Done(r, "NotPending")]
            /\ UNCHANGED commissions
       ELSE /\ commissions' = [commissions EXCEPT ![req[r].comm] =
                                  [@ EXCEPT !.status = "approved",
                                            !.approved_by = req[r].user]]
            /\ req' = [req EXCEPT ![r] = Done(r, "ok")]
    /\ UNCHANGED <<now, ticks, props, carts, nextId>>

StartMethodMarkAsPaid(r, i) ==
    /\ Idle(r)
    /\ i <= Len(commissions)
    /\ req' = [req EXCEPT ![r] = [IdleReq EXCEPT !.op = "methodMarkAsPaid", !.pc = "call",
                                               !.user = "admin", !.comm = i,
                                               !.cpre = StatusOf(i)]]
    /\ UNCHANGED <<now, ticks, props, carts, commissions, nextId>>

\* markAsPaid(...): throws unless the status is approved
MP_Call(r) ==
    /\ req[r].op = "methodMarkAsPaid" /\ req[r].pc = "call"
    /\ IF commissions[req[r].comm].status # "approved"
       THEN /\ req' = [req EXCEPT ![r] = Done(r, "NotApproved")]
            /\ UNCHANGED commissions
       ELSE /\ commissions' = [commissions EXCEPT ![req[r].comm].status = "paid"]
            /\ req' = [req EXCEPT ![r] = Done(r, "ok")]
    /\ UNCHANGED <<now, ticks, props, carts, nextId>>

\* the newRate values passed to override, in hundredths of a percent
OverrideRates == {100, 300}

StartMethodOverride(r, i, rate) ==
    /\ Idle(r)
    /\ i <= Len(commissions)
    /\ req' = [req EXCEPT ![r] = [IdleReq EXCEPT !.op = "methodOverride", !.pc = "call",
                                               !.user = "admin", !.comm = i, !.arg = rate,
                                               !.cpre = StatusOf(i)]]
    /\ UNCHANGED <<now, ticks, props, carts, commissions, nextId>>

\* override(newRate, reason, updatedBy)
MO_Call(r) ==
    /\ req[r].op = "methodOverride" /\ req[r].pc = "call"
    /\ LET c == commissions[req[r].comm]
       IN commissions' = [commissions EXCEPT ![req[r].comm] =
              [c EXCEPT !.original_rate = IF c.is_override THEN c.original_rate ELSE c.rate,
                        !.is_override = TRUE,
                        !.rate = req[r].arg,
                        !.amount = CommissionAmount(c.property_price, req[r].arg)]]
    /\ req' = [req EXCEPT ![r] = Done(r, "ok")]
    /\ UNCHANGED <<now, ticks, props, carts, nextId>>

----------------------------------------------------------------------------
(* Specifications *)

\* The server as server.js mounts it: the buyer, broker and seller routers and
\* the two cleanup services; one request at a time.
RouteStep(r) ==
    \/ RA_ReadProp(r) \/ RA_ReadCart(r) \/ RA_SaveProp(r) \/ RA_SaveCart(r)
    \/ RR_ReadCart(r) \/ RR_SaveCart(r) \/ RR_ReadProp(r) \/ RR_SaveProp(r)
    \/ KR_ReadProp(r) \/ KR_ReadCart(r) \/ KR_SaveCart(r) \/ KR_SaveProp(r)
    \/ KR_Commission(r) \/ KR_CommissionFails(r)
    \/ SU_ReadProp(r)
    \/ SS_Visit(r) \/ SS_Booking(r)
    \/ CS_FindCarts(r) \/ CS_SaveCart(r) \/ CS_FindProps(r) \/ CS_SaveProp(r)
    \/ Retire(r)

RouteStart(r) ==
    \/ \E b \in Buyers, p \in PropIds : StartRouteAdd(r, b, p)
    \/ \E b \in Buyers, p \in PropIds : StartRouteRemove(r, b, p)
    \/ \E k \in Brokers, p \in PropIds : StartBrokerRouteConfirm(r, k, p)
    \/ \E p \in PropIds : StartSellerUnlock(r, p)
    \/ StartSimpleSweep(r)
    \/ StartCronSweep(r)

Next ==
    \/ \E d \in TickSteps : Tick(d)
    \/ RouteStart(1)
    \/ RouteStep(1)

Spec == Init /\ [][Next]_vars

\* The handlers of controllers/buyerController.js and brokerController.js and
\* cartSchema.methods.confirmVisit, with the route that fills the carts; one
\* request at a time.
CtrlStep(r) ==
    \/ RA_ReadProp(r) \/ RA_ReadCart(r) \/ RA_SaveProp(r) \/ RA_SaveCart(r)
    \/ CA_ReadProp(r) \/ CA_ReadCart(r) \/ CA_CreateCart(r)
    \/ CR_ReadCart(r) \/ CR_SaveCart(r) \/ CR_UpdateProp(r) \/ CR_Notify(r)
    \/ BC_ReadCart(r) \/ BC_SaveCart(r) \/ BC_UpdateProp(r) \/ BC_Notify(r)
    \/ KC_ReadCart(r) \/ KC_ReadProp(r) \/ KC_SaveCart(r) \/ KC_SaveProp(r)
    \/ KC_Commission(r) \/ KC_CommissionFails(r) \/ KC_Notify(r)
    \/ MC_ReadCart(r) \/ MC_SaveExpired(r) \/ MC_SaveCart(r)
    \/ Retire(r)

\* the controllers are exercised for one buyer
CtrlBuyers == {"b1"}

CtrlStart(r) ==
    \/ \E b \in CtrlBuyers, p \in PropIds : StartRouteAdd(r, b, p)
    \/ \E b \in CtrlBuyers, p \in PropIds : StartCtrlAdd(r, b, p)
    \/ \E b \in CtrlBuyers, p \in PropIds : StartCtrlRemove(r, b, p)
    \/ \E b \in CtrlBuyers, p \in PropIds : StartBuyerConfirm(r, b, p)
    \/ \E k \in Brokers, b \in CtrlBuyers, p \in PropIds : StartBrokerConfirm(r, k, b, p)
    \/ \E k \in Brokers, b \in CtrlBuyers, p \in PropIds : StartCartConfirm(r, b, p, k)

NextCtrl ==
    \/ \E d \in TickSteps : Tick(d)
    \/ CtrlStart(1)
    \/ CtrlStep(1)

SpecCtrl == Init /\ [][NextCtrl]_vars

\* Requests of the buyer routes served concurrently: every await is a point
\* where another request's step may come in between.
RaceStep(r) ==
    \/ RA_ReadProp(r) \/ RA_ReadCart(r) \/ RA_SaveProp(r) \/ RA_SaveCart(r)
    \/ RR_ReadCart(r) \/ RR_SaveCart(r) \/ RR_ReadProp(r) \/ RR_SaveProp(r)
    \/ Retire(r)

RaceStart(r) ==
    \/ \E b \in Buyers, p \in PropIds : StartRouteAdd(r, b, p)
    \/ \E b \in Buyers, p \in PropIds : StartRouteRemove(r, b, p)

NextRace == \E r \in Slots : RaceStart(r) \/ RaceStep(r)

SpecRace == Init /\ [][NextRace]_vars

\* The life of a reservation under the two cleanup services: one buyer's
\* reservations are made, scheduled, confirmed by the broker and removed while
\* the clock advances and the sweeps run; one request at a time.
SweepStep(r) ==
    \/ RA_ReadProp(r) \/ RA_ReadCart(r) \/ RA_SaveProp(r) \/ RA_SaveCart(r)
    \/ RR_ReadCart(r) \/ RR_SaveCart(r) \/ RR_ReadProp(r) \/ RR_SaveProp(r)
    \/ RS_ReadCart(r) \/ RS_SaveCart(r)
    \/ KR_ReadProp(r) \/ KR_ReadCart(r) \/ KR_SaveCart(r) \/ KR_SaveProp(r)
    \/ KR_Commission(r) \/ KR_CommissionFails(r)
    \/ SS_Visit(r) \/ SS_Booking(r)
    \/ CS_FindCarts(r) \/ CS_SaveCart(r) \/ CS_FindProps(r) \/ CS_SaveProp(r)
    \/ Retire(r)

SweepStart(r) ==
    \/ \E b \in CtrlBuyers, p \in PropIds : StartRouteAdd(r, b, p)
    \/ \E b \in CtrlBuyers, p \in PropIds : StartRouteRemove(r, b, p)
    \/ \E b \in CtrlBuyers, p \in PropIds : StartRouteSchedule(r, b, p)
    \/ \E k \in Brokers, p \in PropIds : StartBrokerRouteConfirm(r, k, p)
    \/ StartSimpleSweep(r)
    \/ StartCronSweep(r)

NextSweep ==
    \/ \E d \in TickSteps : Tick(d)
    \/ SweepStart(1)
    \/ SweepStep(1)

SpecSweep == Init /\ [][NextSweep]_vars

\* One buyer's requests to the buyer routes and to the controller's
\* removeFromCart served concurrently.
ReleaseStep(r) ==
    \/ RA_ReadProp(r) \/ RA_ReadCart(r) \/ RA_SaveProp(r) \/ RA_SaveCart(r)
    \/ RR_ReadCart(r) \/ RR_SaveCart(r) \/ RR_ReadProp(r) \/ RR_SaveProp(r)
    \/ CR_ReadCart(r) \/ CR_SaveCart(r) \/ CR_UpdateProp(r) \/ CR_Notify(r)
    \/ Retire(r)

ReleaseStart(r) ==
    \/ \E b \in CtrlBuyers, p \in PropIds : StartRouteAdd(r, b, p)
    \/ \E b \in CtrlBuyers, p \in PropIds : StartRouteRemove(r, b, p)
    \/ \E b \in CtrlBuyers, p \in PropIds : StartCtrlRemove(r, b, p)

NextRelease == \E r \in Slots : ReleaseStart(r) \/ ReleaseStep(r)

SpecRelease == Init /\ [][NextRelease]_vars

\* The cleanup services' timers and the requests about one stale reservation.
\* The run starts from the state a completed add of buyer b1 on p1 at day 0
\* leaves behind, one day after its visit window has passed.  Each timer tick
\* calls cleanupExpiredItems; neither service keeps a flag of a run in progress.
InitStale ==
    /\ now = DefaultVisitWindowDays + 1
    /\ ticks = 0
    /\ props = [p \in Props |-> IF p = "p1"
                                THEN [NewProperty EXCEPT !.cart_status = LockedBy("b1", 0)]
                                ELSE NewProperty]
    /\ carts = [b \in Buyers |->
                   IF b = "b1" THEN [RouteNewCart EXCEPT !.items = <<NewItem(1, "p1", 0)>>]
                   ELSE NoCart]
    /\ commissions = << >>
    /\ nextId = 2
    /\ req = [r \in Slots |-> IdleReq]

NextStale ==
    \E r \in Slots :
        \/ StartSimpleSweep(r)
        \/ StartCronSweep(r)
        \/ \E p \in PropIds : StartRouteRemove(r, "b1", p)
        \/ \E k \in Brokers, p \in PropIds : StartBrokerRouteConfirm(r, k, p)
        \/ SS_Visit(r) \/ SS_Booking(r)
        \/ CS_FindCarts(r) \/ CS_SaveCart(r) \/ CS_FindProps(r) \/ CS_SaveProp(r)
        \/ RR_ReadCart(r) \/ RR_SaveCart(r) \/ RR_ReadProp(r) \/ RR_SaveProp(r)
        \/ KR_ReadProp(r) \/ KR_ReadCart(r)
        \/ Retire(r)

SpecStale == InitStale /\ [][NextStale]_vars

\* Every way a visit gets confirmed, on one property and for one buyer: the
\* reservation is made through the route, scheduled, confirmed by the broker
\* route, by either controller or by Cart.confirmVisit, and expired by the
\* cron sweep while the clock advances; one request at a time.
InitConfirm ==
    /\ now = 0
    /\ ticks = 0
    /\ props = [p \in {"p1"} |-> NewProperty]
    /\ carts = [b \in Buyers |-> NoCart]
    /\ commissions = << >>
    /\ nextId = 1
    /\ req = [r \in Slots |-> IdleReq]

ConfirmStep(r) ==
    \/ RA_ReadProp(r) \/ RA_ReadCart(r) \/ RA_SaveProp(r) \/ RA_SaveCart(r)
    \/ RS_ReadCart(r) \/ RS_SaveCart(r)
    \/ KR_ReadProp(r) \/ KR_ReadCart(r) \/ KR_SaveCart(r) \/ KR_SaveProp(r)
    \/ KR_Commission(r) \/ KR_CommissionFails(r)
    \/ BC_ReadCart(r) \/ BC_SaveCart(r) \/ BC_UpdateProp(r) \/ BC_Notify(r)
    \/ KC_ReadCart(r) \/ KC_ReadProp(r) \/ KC_SaveCart(r) \/ KC_SaveProp(r)
    \/ KC_Commission(r) \/ KC_CommissionFails(r) \/ KC_Notify(r)
    \/ MC_ReadCart(r) \/ MC_SaveExpired(r) \/ MC_SaveCart(r)
    \/ CS_FindCarts(r) \/ CS_SaveCart(r) \/ CS_FindProps(r) \/ CS_SaveProp(r)
    \/ Retire(r)

ConfirmStart(r) ==
    \/ \E b \in CtrlBuyers, p \in PropIds : StartRouteAdd(r, b, p)
    \/ \E b \in CtrlBuyers, p \in PropIds : StartRouteSchedule(r, b, p)
    \/ \E k \in Brokers, p \in PropIds : StartBrokerRouteConfirm(r, k, p)
    \/ \E b \in CtrlBuyers, p \in PropIds : StartBuyerConfirm(r, b, p)
    \/ \E k \in Brokers, b \in CtrlBuyers, p \in PropIds : StartBrokerConfirm(r, k, b, p)
    \/ \E k \in Brokers, b \in CtrlBuyers, p \in PropIds : StartCartConfirm(r, b, p, k)
    \/ StartCronSweep(r)

NextConfirm ==
    \/ \E d \in TickSteps : Tick(d)
    \/ ConfirmStart(1)
    \/ ConfirmStep(1)

SpecConfirm == InitConfirm /\ [][NextConfirm]_vars

\* The two cleanup services under fair scheduling.  One buyer reserves and
\* schedules visits while the clock advances; both timers keep firing
\* (setInterval in SimpleCleanupService.start, cron.schedule in
\* CartCleanupService.start), and a handler that has started runs to its end.
DriftStep ==
    \/ RA_ReadProp(1) \/ RA_ReadCart(1) \/ RA_SaveProp(1) \/ RA_SaveCart(1)
    \/ RS_ReadCart(1) \/ RS_SaveCart(1)
    \/ SS_Visit(1) \/ SS_Booking(1)
    \/ CS_FindCarts(1) \/ CS_SaveCart(1) \/ CS_FindProps(1) \/ CS_SaveProp(1)
    \/ Retire(1)

NextDrift ==
    \/ \E d \in TickSteps : Tick(d)
    \/ \E b \in CtrlBuyers, p \in PropIds : StartRouteAdd(1, b, p)
    \/ \E b \in CtrlBuyers, p \in PropIds : StartRouteSchedule(1, b, p)
    \/ StartSimpleSweep(1)
    \/ StartCronSweep(1)
    \/ DriftStep

FairDrift ==
    /\ WF_vars(DriftStep)
    /\ SF_vars(StartSimpleSweep(1))
    /\ SF_vars(StartCronSweep(1))

SpecDrift == Init /\ [][NextDrift]_vars /\ FairDrift

\* The administrator's and the seller's requests beside the buyers'
\* reservations and the simple cleanup service; one request at a time.
AdminStep(r) ==
    \/ RA_ReadProp(r) \/ RA_ReadCart(r) \/ RA_SaveProp(r) \/ RA_SaveCart(r)
    \/ RR_ReadCart(r) \/ RR_SaveCart(r) \/ RR_ReadProp(r) \/ RR_SaveProp(r)
    \/ AJ_ReadProp(r) \/ AJ_SaveProp(r)
    \/ AS_ReadProp(r)
    \/ SD_ReadProp(r) \/ SD_Delete(r)
    \/ SS_Visit(r) \/ SS_Booking(r)
    \/ Retire(r)

AdminStart(r) ==
    \/ \E b \in Buyers, p \in PropIds : StartRouteAdd(r, b, p)
    \/ \E b \in Buyers, p \in PropIds : StartRouteRemove(r, b, p)
    \/ \E p \in PropIds : StartAdminReject(r, p)
    \/ \E p \in PropIds : StartAdminSuspend(r, p)
    \/ \E p \in PropIds : StartSellerDelete(r, p)
    \/ StartSimpleSweep(r)

NextAdmin ==
    \/ \E d \in TickSteps : Tick(d)
    \/ AdminStart(1)
    \/ AdminStep(1)

SpecAdmin == Init /\ [][NextAdmin]_vars

\* The administration of commissions.  The run starts from the state that a
\* completed add of buyer b1 on p1 and its confirmation by broker k1 through
\* the broker route leave behind at day 0: one pending seller commission.  The
\* administrator's approve and override requests and the Commission methods
\* are served concurrently.
InitCommission ==
    /\ now = 0
    /\ ticks = 0
    /\ props = [p \in Props |->
                   IF p = "p1"
                   THEN [NewProperty EXCEPT !.cart_status =
                            [LockedBy("b1", 0) EXCEPT !.visit_confirmed = TRUE,
                                                     !.visit_confirmed_at = 0,
                                                     !.booking_window_start = 0,
                                                     !.booking_window_end = RouteBookingDays]]
                   ELSE NewProperty]
    /\ carts = [b \in Buyers |->
                   IF b = "b1"
                   THEN [RouteNewCart EXCEPT !.items =
                            <<RouteConfirmItem(NewItem(1, "p1", 0), "k1", RouteBookingDays)>>]
                   ELSE NoCart]
    /\ commissions = <<NewCommission("k1", "p1", 1, RouteSellerRate("p1"))>>
    /\ nextId = 2
    /\ req = [r \in Slots |-> IdleReq]

CommissionStep(r) ==
    \/ AC_ReadComm(r) \/ AC_SaveComm(r)
    \/ OC_ReadComm(r) \/ OC_SaveComm(r)
    \/ MA_Call(r) \/ MP_Call(r) \/ MO_Call(r)
    \/ Retire(r)

CommissionStart(r) ==
    \/ \E i \in CommissionIds : StartApproveCommission(r, i)
    \/ \E i \in CommissionIds, amt \in OverrideAmounts : StartOverrideCommission(r, i, amt)
    \/ \E i \in CommissionIds : StartMethodApprove(r, i)
    \/ \E i \in CommissionIds : StartMethodMarkAsPaid(r, i)
    \/ \E i \in CommissionIds, rate \in OverrideRates : StartMethodOverride(r, i, rate)

NextCommission == \E r \in Slots : CommissionStart(r) \/ CommissionStep(r)

SpecCommission == InitCommission /\ [][NextCommission]_vars

\* Reserve requests against every kind of property: two live ones, one that
\* is still waiting for approval, and an id that no property has; one request
\* at a time.
ReserveProps == <<"p1", "p2", "p3", "p4">>

InitReserve ==
    /\ now = 0
    /\ ticks = 0
    /\ props = [p \in {ReserveProps[i] : i \in 1..Len(ReserveProps)} |->
                   IF p = "p3" THEN [NewProperty EXCEPT !.status = "pending_approval"]
                   ELSE IF p = "p4" THEN AbsentProperty
                   ELSE NewProperty]
    /\ carts = [b \in Buyers |-> NoCart]
    /\ commissions = << >>
    /\ nextId = 1
    /\ req = [r \in Slots |-> IdleReq]

NextReserve ==
    \/ \E b \in Buyers, p \in PropIds : StartRouteAdd(1, b, p)
    \/ \E b \in Buyers, p \in PropIds : StartRouteRemove(1, b, p)
    \/ RA_ReadProp(1) \/ RA_ReadCart(1) \/ RA_SaveProp(1) \/ RA_SaveCart(1)
    \/ RR_ReadCart(1) \/ RR_SaveCart(1) \/ RR_ReadProp(1) \/ RR_SaveProp(1)
    \/ Retire(1)

SpecReserve == InitReserve /\ [][NextReserve]_vars

\* A buyer one short of the cart limit sends two add requests at once.  The
\* run starts from the state that DefaultMaxProperties - 1 completed adds of
\* buyer b1 at day 0 leave behind: a cart made by the route (limit 5) with
\* four active items and four locked properties, and two free properties.
CapacityProps == <<"p1", "p2", "p3", "p4", "p5", "p6">>

InitCapacity ==
    /\ now = 0
    /\ ticks = 0
    /\ props = [p \in {CapacityProps[i] : i \in 1..Len(CapacityProps)} |->
                   IF \E i \in 1..(DefaultMaxProperties - 1) : CapacityProps[i] = p
                   THEN [NewProperty EXCEPT !.cart_status = LockedBy("b1", 0)]
                   ELSE NewProperty]
    /\ carts = [b \in Buyers |->
                   IF b = "b1"
                   THEN [RouteNewCart EXCEPT
                            !.items = [i \in 1..(DefaultMaxProperties - 1) |->
                                          NewItem(0 - i, CapacityProps[i], 0)],
                            !.v = DefaultMaxProperties - 2]
                   ELSE NoCart]
    /\ commissions = << >>
    /\ nextId = 1
    /\ req = [r \in Slots |-> IdleReq]

NextCapacity ==
    \E r \in Slots :
        \/ \E p \in PropIds : StartRouteAdd(r, "b1", p)
        \/ RA_ReadProp(r) \/ RA_ReadCart(r) \/ RA_SaveProp(r) \/ RA_SaveCart(r)
        \/ Retire(r)

SpecCapacity == InitCapacity /\ [][NextCapacity]_vars

----------------------------------------------------------------------------
(* Properties *)

\* the active cart items, over all carts, that reference property p
ActiveRefsIn(cs, p) ==
    {<<b, i>> \in Buyers \X (1..MaxItems + DefaultMaxProperties) :
        /\ i <= Len(cs[b].items)
        /\ cs[b].items[i].status = "active"
        /\ cs[b].items[i].property = p}

ActiveRefs(p) == ActiveRefsIn(carts, p)

ActiveCount(b) == Cardinality(ActiveIdx(carts[b].items))

\* no handler is between two of its steps
Quiescent == \A r \in Slots : req[r].pc \in {"idle", "done"}

\* C1: in every reachable state each property is referenced by at most one
\* active cart item across all buyers' carts.
MutualExclusion == \A p \in PropIds : Cardinality(ActiveRefs(p)) <= 1

\* C2: whenever no handler is in the middle of its writes, a property's
\* cart_status.in_cart is true if and only if exactly one active cart item
\* references the property.
LockMirrorsReservation ==
    Quiescent =>
        \A p \in PropIds : props[p].cart_status.in_cart <=> Cardinality(ActiveRefs(p)) = 1

\* C3: the check of the lock and the setting of the lock are one atomic step:
\* a reserve request writes in_cart = true only onto a lock that is free at
\* that moment, so of two concurrent requests only one can get past it.
ScenarioC_CheckAndSetAtomic ==
    [][\A r \in Slots :
          (req[r].op = "routeAdd" /\ req[r].pc = "saveProp" /\ req'[r].pc = "saveCart")
              => ~props[req[r].prop].cart_status.in_cart]_vars

\* C4: for every buyer the number of active cart items never exceeds the
\* cart's max_properties.
CapacityBound ==
    \A b \in Buyers : carts[b] # NoCart => ActiveCount(b) <= carts[b].settings.max_properties

\* C5: an add request that loads a cart already holding max_properties active
\* items is answered CapacityExceeded and leaves carts and properties as they
\* were.
ScenarioD_CapacityRejected ==
    [][\A r \in Slots :
          (/\ req[r].op \in {"routeAdd", "ctrlAdd"}
           /\ req[r].pc = "readCart" /\ req'[r].pc # "readCart"
           /\ carts[req[r].buyer] # NoCart
           /\ ActiveCount(req[r].buyer) >= carts[req[r].buyer].settings.max_properties)
              => (/\ req'[r].pc = "done" /\ req'[r].res = "CapacityExceeded"
                  /\ carts' = carts /\ props' = props)]_vars

\* C6: no step turns a cart item's visit_status into confirmed once
\* now > added_at + visit_window_days.
ConfirmedOnlyWithinWindow ==
    [][\A b \in Buyers : \A i \in 1..Len(carts'[b].items) :
          LET after == carts'[b].items[i]
          IN (/\ after.visit_status = "confirmed"
              /\ ~\E j \in 1..Len(carts[b].items) :
                     /\ carts[b].items[j].id = after.id
                     /\ carts[b].items[j].visit_status = "confirmed")
                 => ~(now > after.added_at + carts'[b].settings.visit_window_days)]_vars

\* C7: when a confirm call has answered VisitWindowExpired, the reservation is
\* no longer active and the property's lock is released.
WindowErrorSelfHeals ==
    \A r \in Slots :
        (req[r].pc = "done" /\ req[r].res = "VisitWindowExpired")
            => /\ ActiveRefs(req[r].prop) = {}
               /\ ~props[req[r].prop].cart_status.in_cart

\* C8: no two seller commissions stem from the same cart item.
CommissionExactlyOnce ==
    \A i, j \in 1..Len(commissions) :
        (/\ i # j
         /\ commissions[i].commission_type = "seller"
         /\ commissions[j].commission_type = "seller")
            => commissions[i].item # commissions[j].item

\* C9: once the handlers have returned, every cart item confirmed by a broker
\* who is not the property's adder has its seller commission.
ConfirmationHasCommission ==
    Quiescent =>
        \A b \in Buyers : \A i \in 1..Len(carts[b].items) :
            LET it == carts[b].items[i]
            IN (/\ it.visit_status = "confirmed"
                /\ it.confirmed_by \in Brokers
                /\ PropAddedBy(it.property).user # it.confirmed_by)
                   => \E c \in 1..Len(commissions) :
                          /\ commissions[c].item = it.id
                          /\ commissions[c].commission_type = "seller"

\* C10: a remove call for a reservation that is already released (the cart
\* keeps a removed or expired item for the property and no active one) is
\* answered as a success, not as an error.
SecondReleaseIsNoOp ==
    \A r \in Slots :
        (/\ req[r].op = "routeRemove" /\ req[r].pc = "done"
         /\ FindActive(carts[req[r].buyer].items, req[r].prop) = 0
         /\ \E i \in 1..Len(carts[req[r].buyer].items) :
                /\ carts[req[r].buyer].items[i].property = req[r].prop
                /\ carts[req[r].buyer].items[i].status \in {"removed", "expired"})
            => req[r].res = "ok"

\* C11: every non-active status is terminal: an item whose status is not
\* active in a state is not active in the next state either.
TerminalStatesStay ==
    [][\A b \in Buyers : \A i \in 1..Len(carts[b].items) :
          carts[b].items[i].status # "active"
              => \A j \in 1..Len(carts'[b].items) :
                     carts'[b].items[j].id = carts[b].items[i].id
                         => carts'[b].items[j].status # "active"]_vars

\* the reserve and confirm-visit handlers
ReserveOrConfirmOps ==
    {"routeAdd", "ctrlAdd", "buyerConfirm", "brokerConfirm", "brokerRouteConfirm",
     "cartConfirm"}

\* C12: when a reserve or confirm call has ended with an error outcome, every
\* cart's items and the lock of the call's property are as the call found them
\* (VisitWindowExpired, whose expiry transition is wanted, is left aside).
FailedCallChangesNothing ==
    \A r \in Slots :
        (/\ req[r].pc = "done" /\ req[r].op \in ReserveOrConfirmOps
         /\ req[r].res \notin {"ok", "VisitWindowExpired"})
            => /\ \A b \in Buyers : carts[b].items = req[r].pre.items[b]
               /\ props[req[r].prop].cart_status = req[r].pre.lock

\* the window that governs an item has elapsed: the visit window while the
\* visit is not confirmed, the booking window once it is
WindowBreached(cart, item) ==
    IF item.visit_status = "confirmed"
    THEN item.booking_window_end # NoDate /\ now > item.booking_window_end
    ELSE now > item.added_at + cart.settings.visit_window_days

SweepCompleted(r) ==
    req[r].op \in {"simpleSweep", "cronSweep"} /\ req[r].pc = "done" /\ req[r].res = "ok"

\* C13: when a sweeper run has completed, no item whose governing window has
\* elapsed is left with status active.
SweepExpiresStale ==
    \A r \in Slots :
        SweepCompleted(r)
            => \A b \in Buyers : \A i \in 1..Len(carts[b].items) :
                   carts[b].items[i].status = "active"
                       => ~WindowBreached(carts[b], carts[b].items[i])

SweepRunning(r) ==
    req[r].op \in {"simpleSweep", "cronSweep"} /\ req[r].pc \notin {"idle", "done"}

\* C14: at no time are two executions of the expiry sweep in progress.
SweepsNeverOverlap == Cardinality({r \in Slots : SweepRunning(r)}) <= 1

\* C15: when the sweeper and a buyer's remove race for one stale reservation,
\* the later actor's write is a no-op: no step changes an item that has
\* already left status active.
LaterReleaseIsNoOp ==
    [][\A b \in Buyers : \A i \in 1..Len(carts[b].items) :
          (carts[b].items[i].status # "active" /\ i <= Len(carts'[b].items))
              => carts'[b].items[i] = carts[b].items[i]]_vars

\* C16: a handler that has made its state transition and is at its
\* notifications ends as a success, whether or not the notification is
\* created.
NotifyNeverFailsTheCall ==
    [][\A r \in Slots :
          (req[r].pc = "notify" /\ req'[r].pc = "done") => req'[r].res = "ok"]_vars

\* the items of buyer b whose visit the step confirms
NewlyConfirmed(b) ==
    {i \in 1..Len(carts'[b].items) :
        /\ carts'[b].items[i].visit_status = "confirmed"
        /\ ~\E j \in 1..Len(carts[b].items) :
               /\ carts[b].items[j].id = carts'[b].items[i].id
               /\ carts[b].items[j].visit_status = "confirmed"}

\* C17: a step that confirms a visit leaves the item with
\* visit_confirmed_at = now, booking_window_start = now and
\* booking_window_end = now + booking_window_days.
ConfirmSetsBookingWindow ==
    [][\A b \in Buyers : \A i \in NewlyConfirmed(b) :
          LET after == carts'[b].items[i]
          IN /\ after.visit_confirmed_at = now
             /\ after.booking_window_start = now
             /\ after.booking_window_end = now + carts'[b].settings.booking_window_days]_vars

\* the rate the commission rule asks for: the configured rule value, or 2 %
RuleSellerRate == OrDefault(RuleValue("commission_seller"), CtrlDefaultSellerRate)

\* C18: every seller commission is recorded pending with
\* amount = price x seller_rate / 100, seller_rate being the configured rule
\* value or 2 % when there is no rule.
SellerCommissionAmount ==
    \A c \in 1..Len(commissions) :
        commissions[c].commission_type = "seller"
            => /\ commissions[c].status = "pending"
               /\ commissions[c].amount =
                      CommissionAmount(PropPrice(commissions[c].property), RuleSellerRate)

\* C19: a released lock is cleared entirely: a property that is not held has
\* every other field of its cart_status reset as well.
ReleasedLockIsCleared ==
    \A p \in PropIds : ~props[p].cart_status.in_cart => props[p].cart_status = ClearedLock

\* C20: a reserve call that has returned succeeded only on a live, existing
\* property whose lock was free when the call arrived; it answered AlreadyHeld
\* when the lock was held; and when it was rejected the cart items and the
\* property's lock are as the call found them.
ReservePreconditions ==
    \A r \in Slots :
        (req[r].op = "routeAdd" /\ req[r].pc = "done")
            => /\ req[r].res = "ok"
                     => /\ props[req[r].prop].status = "live"
                        /\ ~req[r].pre.lock.in_cart
               /\ req[r].pre.lock.in_cart => req[r].res = "AlreadyHeld"
               /\ req[r].res # "ok"
                     => /\ \A b \in Buyers : carts[b].items = req[r].pre.items[b]
                        /\ props[req[r].prop].cart_status = req[r].pre.lock

\* a reserve call on a held property has been answered AlreadyHeld
ReserveRejectedHeld ==
    \E r \in Slots :
        /\ req[r].op = "routeAdd" /\ req[r].pc = "done"
        /\ req[r].res = "AlreadyHeld" /\ req[r].pre.lock.in_cart
        /\ req[r].pre.lock.buyer_id # req[r].buyer

\* the buyer of call r already had an active item on the call's property when
\* the call arrived
HeldByCaller(r) ==
    \E i \in 1..Len(req[r].pre.items[req[r].buyer]) :
        /\ req[r].pre.items[req[r].buyer][i].property = req[r].prop
        /\ req[r].pre.items[req[r].buyer][i].status = "active"

\* C21: a reserve call by a buyer who already holds an active reservation on
\* the property ends with DuplicateReservation, and leaves that buyer's cart
\* and the property's lock as it found them.
DuplicateReservationOutcome ==
    \A r \in Slots :
        (req[r].op \in {"routeAdd", "ctrlAdd"} /\ req[r].pc = "done" /\ HeldByCaller(r))
            => /\ req[r].res = "DuplicateReservation"
               /\ carts[req[r].buyer].items = req[r].pre.items[req[r].buyer]
               /\ props[req[r].prop].cart_status = req[r].pre.lock

\* C22: where no active rule exists (visit window, booking window, seller
\* commission), every stored cart carries the built-in windows of 7 and 60
\* days and every seller commission is recorded at the built-in 2 % rate.
RuleFallbackDefaults ==
    /\ \A b \in Buyers :
          carts[b] # NoCart
              => /\ carts[b].settings.visit_window_days
                       = OrDefault(RuleValue("visit_window_days"), DefaultVisitWindowDays)
                 /\ carts[b].settings.booking_window_days
                       = OrDefault(RuleValue("booking_window_days"), DefaultBookingWindowDays)
    /\ \A i \in 1..Len(commissions) :
          commissions[i].commission_type = "seller"
              => commissions[i].rate = RuleSellerRate

\* C23: an item's booking_window_start and booking_window_end are unset when
\* the item is created, and a step gives either of them a new value only while
\* it leaves the item's visit_status at confirmed.
BookingWindowOnlyWithConfirmation ==
    [][\A b \in Buyers : \A i \in 1..Len(carts'[b].items) :
          LET after == carts'[b].items[i]
              old == {j \in 1..Len(carts[b].items) : carts[b].items[j].id = after.id}
          IN \/ after.visit_status = "confirmed"
             \/ /\ old = {}
                /\ after.booking_window_start = NoDate
                /\ after.booking_window_end = NoDate
             \/ \E j \in old :
                   /\ after.booking_window_start = carts[b].items[j].booking_window_start
                   /\ after.booking_window_end = carts[b].items[j].booking_window_end]_vars

\* a confirmed item carries its booking window while another item of the same
\* cart, never confirmed, carries none
ConfirmedHasWindowOthersNone ==
    \E b \in Buyers : \E i, j \in 1..Len(carts[b].items) :
        /\ carts[b].items[i].visit_status = "confirmed"
        /\ carts[b].items[i].booking_window_start # NoDate
        /\ carts[b].items[i].booking_window_end # NoDate
        /\ carts[b].items[j].visit_confirmed_at = NoDate
        /\ carts[b].items[j].booking_window_start = NoDate
        /\ carts[b].items[j].booking_window_end = NoDate

\* buyer b's cart holds an active item on property p
HasActiveItem(b, p) ==
    /\ b \in Buyers
    /\ carts[b] # NoCart
    /\ \E i \in 1..Len(carts[b].items) :
          carts[b].items[i].property = p /\ carts[b].items[i].status = "active"

\* C24: the item is written before the lock mirror: a step that sets a
\* property's lock finds the holder's active item already stored, and a step
\* that clears a lock finds the holder's item already not active.
ItemWrittenBeforeMirror ==
    [][\A p \in PropIds :
          /\ (~props[p].cart_status.in_cart /\ props'[p].cart_status.in_cart)
                => HasActiveItem(props'[p].cart_status.buyer_id, p)
          /\ (props[p].cart_status.in_cart /\ ~props'[p].cart_status.in_cart)
                => ~HasActiveItem(props[p].cart_status.buyer_id, p)]_vars

\* the lock of property p and the cart items disagree
Drift(p) ==
    \/ /\ props[p].cart_status.in_cart
       /\ ~HasActiveItem(props[p].cart_status.buyer_id, p)
    \/ /\ ~props[p].cart_status.in_cart
       /\ \E b \in Buyers : HasActiveItem(b, p)

\* C25: with both cleanup services running again and again, a disagreement
\* between a property's lock and the cart items does not last for ever.
DriftEventuallyRepaired == \A p \in Props : Drift(p) ~> ~Drift(p)

\* C26: between requests, a held lock names the buyer whose cart holds the
\* active item on the property and carries that item's added_at, and a lock
\* that is not held names no buyer.
HolderConsistency ==
    Quiescent =>
        \A p \in PropIds :
            LET cs == props[p].cart_status
            IN IF cs.in_cart
               THEN /\ cs.buyer_id \in Buyers
                    /\ carts[cs.buyer_id] # NoCart
                    /\ \E i \in 1..Len(carts[cs.buyer_id].items) :
                          /\ carts[cs.buyer_id].items[i].property = p
                          /\ carts[cs.buyer_id].items[i].status = "active"
                          /\ carts[cs.buyer_id].items[i].added_at = cs.added_at
               ELSE cs.buyer_id = NoUser

\* the number of active items buyer b's cart held when call r arrived
ActiveAtArrival(r, b) ==
    Cardinality({i \in 1..Len(req[r].pre.items[b]) : req[r].pre.items[b][i].status = "active"})

\* C27: a reserve call that found a live property with its lock released, made
\* by a buyer below the cart limit, has succeeded.
ReleasedIsReservable ==
    \A r \in Slots :
        (/\ req[r].op = "routeAdd" /\ req[r].pc = "done"
         /\ props[req[r].prop].status = "live"
         /\ ~req[r].pre.lock.in_cart
         /\ ActiveAtArrival(r, req[r].buyer) < DefaultMaxProperties)
            => req[r].res = "ok"

\* C28: a property whose lock is held, or that an active cart item refers to,
\* exists and has status live.
HeldImpliesLive ==
    \A p \in PropIds :
        (props[p].cart_status.in_cart \/ \E b \in Buyers : HasActiveItem(b, p))
            => props[p].status = "live"

\* call r ends in this step
Finishes(r) == req[r].pc # "done" /\ req'[r].pc = "done"

AmountFollowsRate ==
    /\ [](\A i \in 1..Len(commissions) :
             commissions[i].amount
                 = CommissionAmount(commissions[i].property_price, commissions[i].rate))
    /\ [][\A i \in 1..Len(commissions) :
             IF commissions[i].original_rate = NoRate
             THEN commissions'[i].original_rate \in {NoRate, commissions[i].rate}
             ELSE commissions'[i].original_rate = commissions[i].original_rate]_vars

====
